---- MODULE Spec2Model ----
(***************************************************************************)
(* Model of src/process_file.py: a content-addressed note store.           *)
(*                                                                         *)
(* Python strings are modelled by what split() makes of them: a string is  *)
(* the sequence of its '/'-separated segments, and each segment is the     *)
(* sequence of its '.'-separated parts, so that                            *)
(*     '/a/.file_info.json'  is  << <<"">>, <<"a">>,                        *)
(*                                  <<"", "file_info", "json">> >>.        *)
(* String concatenation, split('/'), split('.') and '/'.join are computed  *)
(* on this representation.  Python's None is the empty sequence, which no  *)
(* string is (split never returns an empty list).                          *)
(***************************************************************************)
EXTENDS Integers, Sequences, FiniteSets, TLC

VARIABLES
    cwd,        \* os.getcwd()
    files,      \* the files that calc_sum can be asked to hash
    disk,       \* the store files on disk: normalised path -> [fmt, text]
    args,       \* the parsed command line (argparse namespace)
    pc,         \* position of the main flow
    info,       \* main: the store in memory
    changed,    \* main: the conditional-save flag
    load_path,  \* main: the located directory, then the store file path
    todo,       \* main: what the two loops have still to process
    crash,      \* the exception that ended the run or the call ("" if none)
    obs,        \* what the last operation did (its inputs and its effects)
    hist        \* history of the run: counters of what happened so far

vars == <<cwd, files, disk, args, pc, info, changed, load_path, todo, crash,
          obs, hist>>

-----------------------------------------------------------------------------
(* Strings *)

None == <<>>

Str(s) == << <<s>> >>

\* what input() gives when the user interrupts it: no string at all
Interrupt == << <<>> >>

Truthy(x) == x # None /\ x # Str("")

Or(x, y) == IF Truthy(x) THEN x ELSE y

Last(q) == q[Len(q)]

Front(q) == SubSeq(q, 1, Len(q) - 1)

\* a + b for two segments, and for two strings
SegConcat(s, t) == Front(s) \o << Last(s) \o t[1] >> \o Tail(t)

Concat(p, q) == Front(p) \o << SegConcat(Last(p), q[1]) >> \o Tail(q)

\* p.split('/') : the list of the segments, each a string with no '/'
SplitSlash(p) == [i \in 1..Len(p) |-> << p[i] >>]

\* '/'.join(l)
RECURSIVE JoinSlash(_)
JoinSlash(l) ==
    IF l = <<>> THEN Str("")
    ELSE IF Len(l) = 1 THEN l[1]
    ELSE l[1] \o JoinSlash(Tail(l))

\* s.split('.') for a string with no '/'
SplitDot(s) == [i \in 1..Len(s[1]) |-> Str(s[1][i])]

\* file_name.split('/')[-1]
Basename(p) == Last(SplitSlash(p))

\* str.capitalize() on the answers the prompts are given
Capitalize(s) ==
    CASE s = Str("y")   -> Str("Y")
      [] s = Str("n")   -> Str("N")
      [] s = Str("yes") -> Str("Yes")
      [] OTHER          -> s

-----------------------------------------------------------------------------
(* The file system *)

IsAbsolute(p) == Len(p) >= 2 /\ p[1] = <<"">>

\* the file a path string names: relative paths start at cwd, and empty and
\* '.' segments name nothing new
Resolve(dir, p) ==
    SelectSeq(IF IsAbsolute(p) THEN p ELSE dir \o p,
              LAMBDA s : s # <<"">> /\ s # <<"", "">>)

Exists(d, dir, p) == p # Str("") /\ Resolve(dir, p) \in DOMAIN d

\* json.dump / json.load and pickle.dump / pickle.load of a store: the text
\* of a store is the set of its entries
Dumps(data) ==
    { [key |-> k, fname |-> data[k].fname, date |-> data[k].date,
       note |-> data[k].note] : k \in DOMAIN data }

Loads(text) ==
    [k \in { e.key : e \in text } |->
        LET e == CHOOSE x \in text : x.key = k
        IN  [fname |-> e.fname, date |-> e.date, note |-> e.note]]

WriteFile(d, dir, p, f) ==
    LET q == Resolve(dir, p)
    IN  [x \in DOMAIN d \cup {q} |-> IF x = q THEN f ELSE d[x]]

-----------------------------------------------------------------------------
(* calc_sum *)

BLOCK_SIZE == 65536

\* f.read(BLOCK_SIZE) at offset pos of a file of content c: the next block
ReadBlock(c, pos) ==
    [tag |-> c.tag, lo |-> pos,
     hi |-> IF pos + BLOCK_SIZE < c.len THEN pos + BLOCK_SIZE ELSE c.len]

\* the bytes a sequence of blocks spells, when they are the bytes of one
\* content from its start: [tag, len]; anything else is garbled
RECURSIVE Bytes(_, _)
Bytes(blocks, acc) ==
    IF blocks = <<>> THEN acc
    ELSE LET b == blocks[1]
         IN  IF b.hi = b.lo THEN Bytes(Tail(blocks), acc)
             ELSE IF acc.tag = "garbled" THEN acc
             ELSE IF b.lo = acc.len /\ (acc.len = 0 \/ acc.tag = b.tag)
                  THEN Bytes(Tail(blocks), [tag |-> b.tag, len |-> b.hi])
             ELSE [tag |-> "garbled", len |-> 0]

\* hashlib.sha256 of a byte string, as a hex string: injective on the
\* contents of the model, and the empty file has one digest whatever its tag
Sha256(c) ==
    IF c.len = 0 THEN Str("e3b0c442")
    ELSE Str(c.tag \o ToString(c.len))

HexDigest(blocks) == Sha256(Bytes(blocks, [tag |-> "", len |-> 0]))

\* the read loop with the test of line 20 asking for a full block: a short
\* last block is not fed
RECURSIVE ReadLoop_full_blocks_only(_, _, _)
ReadLoop_full_blocks_only(c, pos, fed) ==
    LET fb == ReadBlock(c, pos)
    IN  IF fb.hi - fb.lo = BLOCK_SIZE
        THEN ReadLoop_full_blocks_only(c, fb.hi, Append(fed, fb))
        ELSE fed

\* lines 19-22: the read loop, feeding each block to the hash
RECURSIVE ReadLoop(_, _, _)
ReadLoop(c, pos, fed) ==
    LET fb == ReadBlock(c, pos)
    IN  IF fb.hi - fb.lo > 0
        THEN ReadLoop(c, fb.hi, Append(fed, fb))
        ELSE fed

\* calc_sum(file_name): [exc, ret, fed]
calc_sum(file_name) ==
    IF file_name = None
    THEN [exc |-> "TypeError", ret |-> None, fed |-> <<>>]
    ELSE IF file_name \notin DOMAIN files
    THEN [exc |-> "FileNotFoundError", ret |-> None, fed |-> <<>>]
    ELSE IF files[file_name].tag = "dir"
    THEN [exc |-> "IsADirectoryError", ret |-> None, fed |-> <<>>]
    ELSE LET fed == ReadLoop(files[file_name], 0, <<>>)
         IN  [exc |-> "", ret |-> HexDigest(fed), fed |-> fed]

-----------------------------------------------------------------------------
(* save_info, load_info, find_info *)

INFO_NAME == << <<"", "file_info", "json">> >>

\* f'{path}/{INFO_NAME}'
CurrentFile(path) == Concat(Concat(path, << <<"">>, <<"">> >>), INFO_NAME)

\* f'{path}/.{INFO_NAME.split(".")[1]}'
LegacyFile(path) ==
    Concat(Concat(path, << <<"">>, <<"", "">> >>), SplitDot(INFO_NAME)[2])

\* save_info(path, data_dict): the disk afterwards
save_info(d, dir, path, data_dict) ==
    WriteFile(d, dir, Concat(path, << <<"", "json">> >>),
              [fmt |-> "json", text |-> Dumps(data_dict)])

\* load_info(path): [exc, data, disk, branch]
load_info(d, dir, path) ==
    IF Exists(d, dir, CurrentFile(path))
    THEN LET f == d[Resolve(dir, CurrentFile(path))]
         IN  IF f.fmt = "json"
             THEN [exc |-> "", data |-> Loads(f.text), disk |-> d,
                   branch |-> "json"]
             ELSE [exc |-> "JSONDecodeError", data |-> None, disk |-> d,
                   branch |-> "json"]
    ELSE IF Exists(d, dir, LegacyFile(path))
    THEN LET f == d[Resolve(dir, LegacyFile(path))]
         IN  IF f.fmt = "pickle"
             THEN [exc |-> "", data |-> Loads(f.text),
                   disk |-> save_info(d, dir, path, Loads(f.text)),
                   branch |-> "pickle"]
             ELSE [exc |-> "UnpicklingError", data |-> None, disk |-> d,
                   branch |-> "pickle"]
    ELSE [exc |-> "FileNotFoundError", data |-> None, disk |-> d,
          branch |-> "pickle"]

\* lines 55-66: the search loop; the local name parent is never bound
RECURSIVE find_loop(_, _, _, _, _)
find_loop(d, dir, curr_dir, upcount, max_parent) ==
    IF curr_dir # << <<"">>, <<"">> >> /\ upcount < max_parent
    THEN IF Exists(d, dir, CurrentFile(curr_dir))
         THEN [exc |-> "", ret |-> curr_dir, visited |-> 1]
         ELSE IF Exists(d, dir, LegacyFile(curr_dir))
         THEN [exc |-> "", ret |-> curr_dir, visited |-> 1]
         ELSE LET up == JoinSlash(Front(SplitSlash(curr_dir)))
                  parent_bound == FALSE
              IN  IF ~parent_bound
                  THEN [exc |-> "UnboundLocalError", ret |-> up,
                        visited |-> 1]
                  ELSE LET r == find_loop(d, dir, up, upcount, max_parent)
                       IN  [r EXCEPT !.visited = @ + 1]
    ELSE [exc |-> "FileNotFoundError", ret |-> None, visited |-> 0]

\* find_info(opt): [exc, ret, visited]; opt.max_parent is None or <<n>>
find_info(d, dir, opt) ==
    LET curr_dir == dir
        max_parent == IF opt.max_parent # None /\ opt.max_parent # <<0>>
                      THEN opt.max_parent[1]
                      ELSE Len(SplitSlash(curr_dir))
    IN  find_loop(d, dir, curr_dir, 0, max_parent)

-----------------------------------------------------------------------------
(* print_info, process_single *)

\* print_info(info_dict, file_name): the line printed
print_info(info_dict, file_name) ==
    LET name == info_dict.fname
        shown == IF file_name # None /\ file_name # name
                 THEN Concat(Concat(file_name, Str(" -> ")), name)
                 ELSE name
    IN  <<"info", shown, info_dict.date, info_dict.note>>

\* what one call of process_single did besides returning
NoEffects ==
    [asks |-> 0, note_prompts |-> 0, name_prompts |-> 0, warnings |-> 0,
     hashes |-> 0, lookup |-> None, key |-> None, out |-> <<>>,
     dialog |-> <<>>]

Returns(chg, file_info, eff) ==
    [exc |-> "", changed |-> chg, info |-> file_info, eff |-> eff]

Raises(e, file_info, eff) ==
    [exc |-> e, changed |-> FALSE, info |-> file_info, eff |-> eff]

\* the answers a prompt can get
Answers == {Str(""), Str("y"), Str("n"), Str("yes"), Interrupt}

MaxBlank == 1      \* blank answers in a row to the note prompt

NoteScripts ==
    { [i \in 1..(k + 1) |-> IF i <= k THEN Str("") ELSE final] :
        k \in 0..MaxBlank, final \in {Str("v2"), Interrupt} }

Names == {Str(""), << <<"x", "txt">> >>, Interrupt}

\* note_loop with the while of line 110 made an if: the first answer is
\* taken, blank or not
RECURSIVE note_loop_asks_once(_, _, _, _)
note_loop_asks_once(note, responses, heard, warnings) ==
    IF note # Str("") \/ heard # <<>>
    THEN [note |-> note, interrupted |-> FALSE, heard |-> heard,
          warnings |-> warnings]
    ELSE IF responses[1] = Interrupt
    THEN [note |-> note, interrupted |-> TRUE,
          heard |-> Append(heard, <<"note", Interrupt>>),
          warnings |-> warnings]
    ELSE note_loop_asks_once(responses[1], Tail(responses),
                   Append(heard, <<"note", responses[1]>>),
                   IF responses[1] = Str("") THEN warnings + 1 ELSE warnings)

\* lines 110-117: solicit the note while it is blank, the user answering
\* by the script responses
RECURSIVE note_loop(_, _, _, _)
note_loop(note, responses, heard, warnings) ==
    IF note # Str("")
    THEN [note |-> note, interrupted |-> FALSE, heard |-> heard,
          warnings |-> warnings]
    ELSE IF responses[1] = Interrupt
    THEN [note |-> note, interrupted |-> TRUE,
          heard |-> Append(heard, <<"note", Interrupt>>),
          warnings |-> warnings]
    ELSE note_loop(responses[1], Tail(responses),
                   Append(heard, <<"note", responses[1]>>),
                   IF responses[1] = Str("") THEN warnings + 1 ELSE warnings)

\* insert_record with the assignment of line 123 made a setdefault: a record
\* already held at the key is kept
insert_record_keeps_old(file_info, file_name, f_sum, date, note, eff) ==
    LET trimmed == IF file_name # None THEN Basename(file_name) ELSE file_name
        put(fname, e) ==
            Returns(TRUE,
                    [k \in DOMAIN file_info \cup {f_sum} |->
                        IF k \in DOMAIN file_info THEN file_info[k]
                        ELSE [date |-> date, note |-> note, fname |-> fname]],
                    [e EXCEPT !.key = f_sum])
    IN  IF Truthy(trimmed) THEN {put(trimmed, eff)}
        ELSE { LET e == [eff EXCEPT !.name_prompts = @ + 1,
                                    !.dialog = Append(@, <<"name", name>>)]
               IN  IF name = Interrupt
                   THEN Raises("KeyboardInterrupt", file_info, e)
                   ELSE put(name, e) : name \in Names }

\* insert_record with line 123 making a store of the new record alone
insert_record_drops_others(file_info, file_name, f_sum, date, note, eff) ==
    LET trimmed == IF file_name # None THEN Basename(file_name) ELSE file_name
        put(fname, e) ==
            Returns(TRUE,
                    [k \in {f_sum} |->
                        [date |-> date, note |-> note, fname |-> fname]],
                    [e EXCEPT !.key = f_sum])
    IN  IF Truthy(trimmed) THEN {put(trimmed, eff)}
        ELSE { LET e == [eff EXCEPT !.name_prompts = @ + 1,
                                    !.dialog = Append(@, <<"name", name>>)]
               IN  IF name = Interrupt
                   THEN Raises("KeyboardInterrupt", file_info, e)
                   ELSE put(name, e) : name \in Names }

\* lines 119-125: set the file name and insert the record; the outcomes,
\* one for each answer the file name prompt can get
insert_record(file_info, file_name, f_sum, date, note, eff) ==
    LET trimmed == IF file_name # None THEN Basename(file_name) ELSE file_name
        put(fname, e) ==
            Returns(TRUE,
                    [k \in DOMAIN file_info \cup {f_sum} |->
                        IF k = f_sum
                        THEN [date |-> date, note |-> note, fname |-> fname]
                        ELSE file_info[k]],
                    [e EXCEPT !.key = f_sum])
    IN  IF Truthy(trimmed) THEN {put(trimmed, eff)}
        ELSE { LET e == [eff EXCEPT !.name_prompts = @ + 1,
                                    !.dialog = Append(@, <<"name", name>>)]
               IN  IF name = Interrupt
                   THEN Raises("KeyboardInterrupt", file_info, e)
                   ELSE put(name, e) : name \in Names }

\* create with the return of line 117 lost: after an interrupt of the note
\* prompt the record is inserted with the note it has so far
create_interrupt_inserts(file_info, file_name, hash_val, note_arg, date, eff) ==
    LET hashed == ~Truthy(hash_val)
        sum == IF hashed THEN calc_sum(file_name)
               ELSE [exc |-> "", ret |-> hash_val, fed |-> <<>>]
        eff2 == IF hashed THEN [eff EXCEPT !.hashes = @ + 1] ELSE eff
        first == Or(note_arg, Str(""))
    IN  IF sum.exc # "" THEN {Raises(sum.exc, file_info, eff2)}
        ELSE UNION {
            LET n == note_loop(first, script, <<>>, 0)
                eff3 == [eff2 EXCEPT !.note_prompts = Len(n.heard),
                                     !.warnings = n.warnings,
                                     !.dialog = @ \o n.heard]
            IN  insert_record(file_info, file_name, sum.ret, date, n.note,
                              eff3)
            : script \in IF first # Str("") THEN {<<>>} ELSE NoteScripts }

\* create with line 106 preferring the file to the digest:
\* f_sum = calc_sum(file_name) whenever a file name is given
create_prefers_file(file_info, file_name, hash_val, note_arg, date, eff) ==
    LET hashed == file_name # None \/ ~Truthy(hash_val)
        sum == IF hashed THEN calc_sum(file_name)
               ELSE [exc |-> "", ret |-> hash_val, fed |-> <<>>]
        eff2 == IF hashed THEN [eff EXCEPT !.hashes = @ + 1] ELSE eff
        first == Or(note_arg, Str(""))
    IN  IF sum.exc # "" THEN {Raises(sum.exc, file_info, eff2)}
        ELSE UNION {
            LET n == note_loop(first, script, <<>>, 0)
                eff3 == [eff2 EXCEPT !.note_prompts = Len(n.heard),
                                     !.warnings = n.warnings,
                                     !.dialog = @ \o n.heard]
            IN  IF n.interrupted THEN {Returns(FALSE, file_info, eff3)}
                ELSE insert_record(file_info, file_name, sum.ret, date,
                                   n.note, eff3)
            : script \in IF first # Str("") THEN {<<>>} ELSE NoteScripts }

\* lines 106-125: creation or edit of the record; the outcomes, one for
\* each way the note prompt can be answered
create(file_info, file_name, hash_val, note_arg, date, eff) ==
    LET hashed == ~Truthy(hash_val)
        sum == IF hashed THEN calc_sum(file_name)
               ELSE [exc |-> "", ret |-> hash_val, fed |-> <<>>]
        eff2 == IF hashed THEN [eff EXCEPT !.hashes = @ + 1] ELSE eff
        first == Or(note_arg, Str(""))
    IN  IF sum.exc # "" THEN {Raises(sum.exc, file_info, eff2)}
        ELSE UNION {
            LET n == note_loop(first, script, <<>>, 0)
                eff3 == [eff2 EXCEPT !.note_prompts = Len(n.heard),
                                     !.warnings = n.warnings,
                                     !.dialog = @ \o n.heard]
            IN  IF n.interrupted THEN {Returns(FALSE, file_info, eff3)}
                ELSE insert_record(file_info, file_name, sum.ret, date,
                                   n.note, eff3)
            : script \in IF first # Str("") THEN {<<>>} ELSE NoteScripts }

\* lookup_failed with the test of line 97 lost: policy skip falls through to
\* the creation
lookup_failed_skip_creates(file_info, add_policy, file_name, hash_val, note_arg, date, eff) ==
    IF ~Truthy(hash_val) /\ file_name = None
    THEN {Raises("AttributeError", file_info, eff)}
    ELSE IF add_policy = "ask"
         THEN UNION {
              LET eff2 == [eff EXCEPT !.asks = @ + 1,
                                      !.dialog = Append(@, <<"add", ans>>)]
              IN  IF ans = Interrupt
                  THEN {Raises("KeyboardInterrupt", file_info, eff2)}
                  ELSE IF Capitalize(Or(ans, Str("y"))) # Str("Y")
                  THEN {Returns(FALSE, file_info, eff2)}
                  ELSE create(file_info, file_name, hash_val, note_arg,
                              date, eff2)
              : ans \in Answers }
         ELSE create(file_info, file_name, hash_val, note_arg, date, eff)

\* lookup_failed with the default answer of line 102 'n' instead of 'y'
lookup_failed_default_no(file_info, add_policy, file_name, hash_val, note_arg, date, eff) ==
    IF ~Truthy(hash_val) /\ file_name = None
    THEN {Raises("AttributeError", file_info, eff)}
    ELSE LET missing == Or(hash_val, Basename(file_name))
         IN  IF add_policy = "skip"
             THEN {Returns(FALSE, file_info,
                           [eff EXCEPT !.out = Append(@, <<"not found", missing>>)])}
             ELSE IF add_policy = "ask"
             THEN UNION {
                  LET eff2 == [eff EXCEPT !.asks = @ + 1,
                                          !.dialog = Append(@, <<"add", ans>>)]
                  IN  IF ans = Interrupt
                      THEN {Raises("KeyboardInterrupt", file_info, eff2)}
                      ELSE IF Capitalize(Or(ans, Str("n"))) # Str("Y")
                      THEN {Returns(FALSE, file_info, eff2)}
                      ELSE create(file_info, file_name, hash_val, note_arg,
                                  date, eff2)
                  : ans \in Answers }
             ELSE create(file_info, file_name, hash_val, note_arg, date, eff)

\* lines 95-104: the lookup failed; the outcomes, one for each answer the
\* confirmation prompt can get
lookup_failed(file_info, add_policy, file_name, hash_val, note_arg, date, eff) ==
    IF ~Truthy(hash_val) /\ file_name = None
    THEN {Raises("AttributeError", file_info, eff)}
    ELSE LET missing == Or(hash_val, Basename(file_name))
         IN  IF add_policy = "skip"
             THEN {Returns(FALSE, file_info,
                           [eff EXCEPT !.out = Append(@, <<"not found", missing>>)])}
             ELSE IF add_policy = "ask"
             THEN UNION {
                  LET eff2 == [eff EXCEPT !.asks = @ + 1,
                                          !.dialog = Append(@, <<"add", ans>>)]
                  IN  IF ans = Interrupt
                      THEN {Raises("KeyboardInterrupt", file_info, eff2)}
                      ELSE IF Capitalize(Or(ans, Str("y"))) # Str("Y")
                      THEN {Returns(FALSE, file_info, eff2)}
                      ELSE create(file_info, file_name, hash_val, note_arg,
                                  date, eff2)
                  : ans \in Answers }
             ELSE create(file_info, file_name, hash_val, note_arg, date, eff)

\* lookup with the return of line 93 lost: a record that is found is
\* reported and the call goes on as if the lookup had failed
lookup_found_goes_on(file_info, add_policy, file_name, hash_val, note_arg, date) ==
    LET hashed == hash_val = None
        sum == IF hashed THEN calc_sum(file_name)
               ELSE [exc |-> "", ret |-> hash_val, fed |-> <<>>]
        eff == IF hashed THEN [NoEffects EXCEPT !.hashes = 1] ELSE NoEffects
    IN  IF sum.exc # "" THEN {Raises(sum.exc, file_info, eff)}
        ELSE LET eff2 == [eff EXCEPT !.lookup = sum.ret]
                 name == IF file_name = None THEN None
                         ELSE Basename(file_name)
             IN  lookup_failed(file_info, add_policy, file_name, hash_val,
                               note_arg, date,
                               IF sum.ret \in DOMAIN file_info
                               THEN [eff2 EXCEPT !.out = Append(@,
                                        print_info(file_info[sum.ret], name))]
                               ELSE eff2)

\* lines 84-93: look the target up and, when found, report it
lookup(file_info, add_policy, file_name, hash_val, note_arg, date) ==
    LET hashed == hash_val = None
        sum == IF hashed THEN calc_sum(file_name)
               ELSE [exc |-> "", ret |-> hash_val, fed |-> <<>>]
        eff == IF hashed THEN [NoEffects EXCEPT !.hashes = 1] ELSE NoEffects
    IN  IF sum.exc # "" THEN {Raises(sum.exc, file_info, eff)}
        ELSE LET eff2 == [eff EXCEPT !.lookup = sum.ret]
             IN  IF sum.ret \in DOMAIN file_info
                 THEN LET name == IF file_name = None THEN None
                                  ELSE Basename(file_name)
                      IN  {Returns(FALSE, file_info,
                                   [eff2 EXCEPT !.out = Append(@,
                                       print_info(file_info[sum.ret], name))])}
                 ELSE lookup_failed(file_info, add_policy, file_name,
                                    hash_val, note_arg, date, eff2)

\* process_single without the assert of line 80
process_single_no_assert(file_info, add_policy, file_name, hash_val, note_arg, date) ==
    IF add_policy # "add"
    THEN lookup(file_info, add_policy, file_name, hash_val, note_arg, date)
    ELSE create(file_info, file_name, hash_val, note_arg, date, NoEffects)

\* process_single(file_info, add_policy, file_name, hash_val), with the
\* global args.note and the clock: the outcomes the call can have, one for
\* each way the user can answer its prompts
process_single(file_info, add_policy, file_name, hash_val, note_arg, date) ==
    IF ~(file_name # None \/ hash_val # None)
    THEN {Raises("AssertionError", file_info, NoEffects)}
    ELSE IF add_policy # "add"
    THEN lookup(file_info, add_policy, file_name, hash_val, note_arg, date)
    ELSE create(file_info, file_name, hash_val, note_arg, date, NoEffects)

-----------------------------------------------------------------------------
(* The environment: directories, store files, target files, user input *)

MaxDepth == 2      \* depth of the deepest working directory below '/'
MaxTargets == 2    \* files plus digests requested in one run
MaxCalls == 2      \* calls in a row of one function on its own

Formats == {"json", "pickle"}

DirSegs(k) == [i \in 1..k |-> << "d" \o ToString(i) >>]

\* the path string os.getcwd() gives for the directory of depth k
Dir(k) == IF k = 0 THEN << <<"">>, <<"">> >> ELSE << <<"">> >> \o DirSegs(k)

\* where the store file of a format really is in the directory of depth k
StoreFile(k, fmt) ==
    DirSegs(k) \o (IF fmt = "json" THEN << <<"", "file_info", "json">> >>
                   ELSE << <<"", "file_info">> >>)

OldDate == << <<"31">>, <<"10">>, <<"2026 09:00:00">> >>
NowDate == << <<"01">>, <<"11">>, <<"2026 21:55:00">> >>

NotesTxt == << <<"notes", "txt">> >>
DirNotesTxt == << <<"d">>, <<"notes", "txt">> >>
GoneTxt == << <<"gone", "txt">> >>
DirSlash == << <<"d">>, <<"">> >>

\* the target files: two of the same name and different content, a
\* directory, and GoneTxt that does not exist
Files ==
    (NotesTxt :> [tag |-> "A", len |-> 3]) @@
    (DirNotesTxt :> [tag |-> "B", len |-> BLOCK_SIZE + 1]) @@
    (DirSlash :> [tag |-> "dir", len |-> 0])

DigestA == Sha256([tag |-> "A", len |-> 3])
DigestB == Sha256([tag |-> "B", len |-> BLOCK_SIZE + 1])
DigestH2 == Str("h2")

\* the store a store file of the given format holds in the directory of
\* depth k: the two formats and the depths differ by their notes
StoreIn(k, fmt) ==
    IF fmt = "json"
    THEN (DigestA :> [fname |-> NotesTxt, date |-> OldDate,
                      note |-> Str("json" \o ToString(k))])
    ELSE (DigestA :> [fname |-> NotesTxt, date |-> OldDate,
                      note |-> Str("pickle" \o ToString(k))]) @@
         (DigestH2 :> [fname |-> << <<"other", "txt">> >>, date |-> OldDate,
                       note |-> Str("legacy")])

\* the disk with the store files a placement puts in the directories
DiskOf(pl) ==
    LET at == { x \in (DOMAIN pl) \X Formats : x[2] \in pl[x[1]] }
    IN  [q \in { StoreFile(x[1], x[2]) : x \in at } |->
            LET x == CHOOSE y \in at : StoreFile(y[1], y[2]) = q
            IN  [fmt |-> x[2], text |-> Dumps(StoreIn(x[1], x[2]))]]

SeqsUpTo(S, n) == UNION { [1..k -> S] : k \in 0..n }

NoObs == [op |-> ""]

Hist0(d) ==
    [ever_changed |-> FALSE, saves |-> 0, calls |-> 0, origin |-> "",
     dir |-> None, disk0 |-> d, loaded |-> d]

-----------------------------------------------------------------------------
(* The main flow, lines 128-184 *)

\* line 169
Policy(a) == IF a.no_add THEN "skip" ELSE IF a.add THEN "add" ELSE "ask"

\* lines 148-151: the lines --all prints
list_all(data, a) ==
    IF a.all THEN { print_info(data[h], None) : h \in DOMAIN data } ELSE {}

\* lines 145-153: locate and load the store
MainLocate ==
    /\ pc = "locate"
    /\ LET f == find_info(disk, cwd, args)
           l == load_info(disk, cwd, f.ret)
       IN  IF f.exc = "" /\ l.exc = ""
           THEN /\ info' = l.data
                /\ disk' = l.disk
                /\ load_path' = f.ret
                /\ pc' = "setup"
                /\ crash' = ""
                /\ hist' = [hist EXCEPT !.origin = l.branch]
                /\ obs' = [op |-> "locate", found |-> f, branch |-> l.branch,
                           listed |-> list_all(l.data, args)]
           ELSE LET e == IF f.exc # "" THEN f.exc ELSE l.exc
                IN  /\ pc' = IF e = "FileNotFoundError" THEN "generate"
                             ELSE "crashed"
                    /\ crash' = IF e = "FileNotFoundError" THEN "" ELSE e
                    /\ obs' = [op |-> "locate", found |-> f, branch |-> "",
                               listed |-> {}]
                    /\ UNCHANGED <<info, disk, load_path, hist>>
    /\ UNCHANGED <<cwd, files, args, changed, todo>>

\* lines 153-163: no store file: offer to generate one
MainGenerate ==
    /\ pc = "generate"
    /\ \E ans \in Answers :
          /\ obs' = [op |-> "generate", ans |-> ans]
          /\ IF ans = Interrupt \/ Capitalize(Or(ans, Str("y"))) # Str("Y")
             THEN /\ pc' = "exit"
                  /\ UNCHANGED <<info, changed, load_path, hist>>
             ELSE /\ info' = <<>>
                  /\ changed' = TRUE
                  /\ load_path' = << <<"", "">> >>
                  /\ pc' = "setup"
                  /\ hist' = [hist EXCEPT !.origin = "new"]
    /\ UNCHANGED <<cwd, files, disk, args, todo, crash>>

\* lines 165-169: the store file path and the targets of the two loops;
\* argparse gives a list for fname, never None
MainSetup ==
    /\ pc = "setup"
    /\ load_path' = JoinSlash(<<load_path, INFO_NAME>>)
    /\ todo' = [fname |-> args.fname, hash |-> args.hash]
    /\ pc' = "loops"
    /\ hist' = [hist EXCEPT !.dir = load_path, !.loaded = disk]
    /\ UNCHANGED <<cwd, files, disk, args, info, changed, crash, obs>>

\* MainCall with the handlers of lines 173 and 180 turned into 'continue':
\* an interrupt ends the item and the loop goes on
MainCall_interrupt_goes_on(file_name, hash_val) ==
    \E res \in process_single(info, Policy(args), file_name, hash_val,
                               args.note, NowDate) :
           /\ obs' = [op |-> "process_single", policy |-> Policy(args),
                      file_name |-> file_name, hash_val |-> hash_val,
                      note_arg |-> args.note, before |-> info, res |-> res]
           /\ hist' = [hist EXCEPT !.calls = @ + 1,
                                   !.ever_changed = @ \/ (res.exc = "" /\ res.changed)]
           /\ IF res.exc = ""
              THEN /\ changed' = res.changed
                   /\ info' = res.info
                   /\ pc' = "loops"
                   /\ crash' = ""
              ELSE /\ pc' = IF res.exc = "KeyboardInterrupt" THEN "loops"
                            ELSE "crashed"
                   /\ crash' = IF res.exc = "KeyboardInterrupt" THEN ""
                               ELSE res.exc
                   /\ UNCHANGED <<changed, info>>

\* MainCall with every exception but the interrupt swallowed by the loop
MainCall_error_goes_on(file_name, hash_val) ==
    \E res \in process_single(info, Policy(args), file_name, hash_val,
                               args.note, NowDate) :
           /\ obs' = [op |-> "process_single", policy |-> Policy(args),
                      file_name |-> file_name, hash_val |-> hash_val,
                      note_arg |-> args.note, before |-> info, res |-> res]
           /\ hist' = [hist EXCEPT !.calls = @ + 1,
                                   !.ever_changed = @ \/ (res.exc = "" /\ res.changed)]
           /\ IF res.exc = ""
              THEN /\ changed' = res.changed
                   /\ info' = res.info
                   /\ pc' = "loops"
                   /\ crash' = ""
              ELSE /\ pc' = IF res.exc = "KeyboardInterrupt" THEN "exit"
                            ELSE "loops"
                   /\ crash' = ""
                   /\ UNCHANGED <<changed, info>>

\* one call of process_single from a loop of the main flow
MainCall(file_name, hash_val) ==
    \E res \in process_single(info, Policy(args), file_name, hash_val,
                               args.note, NowDate) :
           /\ obs' = [op |-> "process_single", policy |-> Policy(args),
                      file_name |-> file_name, hash_val |-> hash_val,
                      note_arg |-> args.note, before |-> info, res |-> res]
           /\ hist' = [hist EXCEPT !.calls = @ + 1,
                                   !.ever_changed = @ \/ (res.exc = "" /\ res.changed)]
           /\ IF res.exc = ""
              THEN /\ changed' = res.changed
                   /\ info' = res.info
                   /\ pc' = "loops"
                   /\ crash' = ""
              ELSE /\ pc' = IF res.exc = "KeyboardInterrupt" THEN "exit"
                            ELSE "crashed"
                   /\ crash' = IF res.exc = "KeyboardInterrupt" THEN ""
                               ELSE res.exc
                   /\ UNCHANGED <<changed, info>>

\* lines 170-174: one iteration of the loop over the files
MainFile ==
    /\ pc = "loops"
    /\ todo.fname # <<>>
    /\ MainCall(todo.fname[1], None)
    /\ todo' = [todo EXCEPT !.fname = Tail(@)]
    /\ UNCHANGED <<cwd, files, disk, args, load_path>>

\* lines 176-181: one iteration of the loop over the digests
MainHash ==
    /\ pc = "loops"
    /\ todo.fname = <<>>
    /\ todo.hash # <<>>
    /\ MainCall(None, todo.hash[1])
    /\ todo' = [todo EXCEPT !.hash = Tail(@)]
    /\ UNCHANGED <<cwd, files, disk, args, load_path>>

\* the end of the run with the test of line 183 lost: the store is saved
\* whether or not it changed
MainSave_always ==
    /\ pc = "loops"
    /\ todo.fname = <<>>
    /\ todo.hash = <<>>
    /\ pc' = "done"
    /\ disk' = save_info(disk, cwd, load_path, info)
    /\ hist' = [hist EXCEPT !.saves = @ + 1]
    /\ obs' = [op |-> "save", saved |-> TRUE]
    /\ UNCHANGED <<cwd, files, args, info, changed, load_path, todo, crash>>

\* lines 183-184: the conditional save that ends the run
MainSave ==
    /\ pc = "loops"
    /\ todo.fname = <<>>
    /\ todo.hash = <<>>
    /\ pc' = "done"
    /\ IF changed
       THEN /\ disk' = save_info(disk, cwd, load_path, info)
            /\ hist' = [hist EXCEPT !.saves = @ + 1]
       ELSE UNCHANGED <<disk, hist>>
    /\ obs' = [op |-> "save", saved |-> changed]
    /\ UNCHANGED <<cwd, files, args, info, changed, load_path, todo, crash>>

\* the command lines of the model
ArgsOf(f, h, mp) ==
    { [fname |-> f, hash |-> h, max_parent |-> mp, add |-> a, note |-> n,
       all |-> p, no_add |-> o] :
        a \in BOOLEAN, o \in BOOLEAN, p \in {FALSE},
        n \in {Str(""), Str("v1")} }

MainTargets ==
    { t \in SeqsUpTo({NotesTxt, DirNotesTxt, GoneTxt}, MaxTargets)
            \X SeqsUpTo({DigestA, DigestH2, Str("")}, MaxTargets) :
        Len(t[1]) + Len(t[2]) <= MaxTargets }

\* a run starts in '/' or in a directory below it that holds any of the
\* two store files
Init ==
    /\ \E k \in {0, 1} : \E here \in SUBSET Formats :
       \E mp \in {None, <<-1>>} : \E t \in MainTargets :
          /\ k = 0 => here = {} /\ mp = None
          /\ cwd = Dir(k)
          /\ disk = DiskOf([j \in {k} |-> here])
          /\ args \in ArgsOf(t[1], t[2], mp)
    /\ files = Files
    /\ pc = "locate"
    /\ info = <<>>
    /\ changed = FALSE
    /\ load_path = None
    /\ todo = [fname |-> <<>>, hash |-> <<>>]
    /\ crash = ""
    /\ obs = NoObs
    /\ hist = Hist0(disk)

Next ==
    \/ MainLocate
    \/ MainGenerate
    \/ MainSetup
    \/ MainFile
    \/ MainHash
    \/ MainSave

Spec == Init /\ [][Next]_vars

-----------------------------------------------------------------------------
(* Locating the store from any directory, with any store files above it *)

InitLocate ==
    /\ \E k \in 0..MaxDepth : \E pl \in [0..k -> SUBSET Formats] :
          /\ cwd = Dir(k)
          /\ disk = DiskOf(pl)
    /\ files = Files
    /\ \E mp \in {None, <<-1>>, <<0>>, <<1>>, <<MaxDepth + 2>>} :
          args = [fname |-> <<>>, hash |-> None, max_parent |-> mp,
                  add |-> FALSE, note |-> Str(""), all |-> TRUE,
                  no_add |-> FALSE]
    /\ pc = "locate"
    /\ info = <<>>
    /\ changed = FALSE
    /\ load_path = None
    /\ todo = [fname |-> <<>>, hash |-> <<>>]
    /\ crash = ""
    /\ obs = NoObs
    /\ hist = Hist0(disk)

NextLocate ==
    \/ MainLocate
    \/ MainGenerate

SpecLocate == InitLocate /\ [][NextLocate]_vars

-----------------------------------------------------------------------------
(* load_info called on its own, several times in a row *)

CallLoad ==
    /\ pc = "unit"
    /\ hist.calls < MaxCalls
    /\ \E k \in 0..MaxDepth :
          LET l == load_info(disk, cwd, Dir(k))
          IN  /\ disk' = l.disk
              /\ obs' = Append(obs, [path |-> Dir(k), depth |-> k,
                                     exc |-> l.exc, data |-> l.data,
                                     branch |-> l.branch, before |-> disk])
    /\ hist' = [hist EXCEPT !.calls = @ + 1]
    /\ UNCHANGED <<cwd, files, args, pc, info, changed, load_path, todo,
                   crash>>

InitLoad ==
    /\ cwd = Dir(MaxDepth)
    /\ \E pl \in [0..MaxDepth -> SUBSET Formats] : disk = DiskOf(pl)
    /\ files = Files
    /\ args = None
    /\ pc = "unit"
    /\ info = <<>>
    /\ changed = FALSE
    /\ load_path = None
    /\ todo = [fname |-> <<>>, hash |-> <<>>]
    /\ crash = ""
    /\ obs = <<>>
    /\ hist = Hist0(disk)

NextLoad == CallLoad

SpecLoad == InitLoad /\ [][NextLoad]_vars

-----------------------------------------------------------------------------
(* process_single called on its own, with any target and any policy *)

CallStores ==
    {<<>>, StoreIn(0, "json"), StoreIn(0, "pickle")}

CallProcessSingle ==
    /\ pc = "unit"
    /\ hist.calls < MaxCalls
    /\ \E add_policy \in {"add", "ask", "skip"} :
       \E file_name \in {None, NotesTxt, DirNotesTxt, GoneTxt, DirSlash} :
       \E hash_val \in {None, Str(""), DigestA, DigestH2} :
       \E res \in process_single(info, add_policy, file_name, hash_val,
                                  args.note, NowDate) :
              /\ obs' = [op |-> "process_single", policy |-> add_policy,
                         file_name |-> file_name, hash_val |-> hash_val,
                         note_arg |-> args.note, before |-> info,
                         res |-> res]
              /\ info' = res.info
              /\ crash' = res.exc
    /\ hist' = [hist EXCEPT !.calls = @ + 1]
    /\ UNCHANGED <<cwd, files, disk, args, pc, changed, load_path, todo>>

InitCall ==
    /\ cwd = Dir(1)
    /\ disk = DiskOf([j \in {1} |-> {}])
    /\ files = Files
    /\ \E n \in {Str(""), Str("v1")} : args = [note |-> n]
    /\ pc = "unit"
    /\ info \in CallStores
    /\ changed = FALSE
    /\ load_path = None
    /\ todo = [fname |-> <<>>, hash |-> <<>>]
    /\ crash = ""
    /\ obs = NoObs
    /\ hist = Hist0(disk)

NextCall == CallProcessSingle

SpecCall == InitCall /\ [][NextCall]_vars

-----------------------------------------------------------------------------
(* calc_sum on its own, on files of every length around the block size *)

MaxBlocks == 2     \* full blocks in the longest file

\* the lengths at, just below and just above each multiple of BLOCK_SIZE
Lengths ==
    { n \in { k * BLOCK_SIZE + d : k \in 0..MaxBlocks, d \in {-1, 0, 1} } :
        n >= 0 }

Contents == [tag : {"A", "B"}, len : Lengths]

CallCalcSum ==
    /\ pc = "digest"
    /\ hist.calls < MaxCalls
    /\ \E file_name \in {NotesTxt, DirNotesTxt, GoneTxt, DirSlash} :
          LET r == calc_sum(file_name)
          IN  /\ obs' = [op |-> "calc_sum", file_name |-> file_name,
                         res |-> r]
              /\ crash' = r.exc
    /\ hist' = [hist EXCEPT !.calls = @ + 1]
    /\ UNCHANGED <<cwd, files, disk, args, pc, info, changed, load_path,
                   todo>>

InitDigest ==
    /\ cwd = Dir(1)
    /\ disk = DiskOf([j \in {1} |-> {}])
    /\ \E c1 \in Contents : \E c2 \in Contents :
          files = (NotesTxt :> c1) @@ (DirNotesTxt :> c2) @@
                  (DirSlash :> [tag |-> "dir", len |-> 0])
    /\ args = [note |-> Str("")]
    /\ pc = "digest"
    /\ info = <<>>
    /\ changed = FALSE
    /\ load_path = None
    /\ todo = [fname |-> <<>>, hash |-> <<>>]
    /\ crash = ""
    /\ obs = NoObs
    /\ hist = Hist0(disk)

NextDigest == CallCalcSum

SpecDigest == InitDigest /\ [][NextDigest]_vars

-----------------------------------------------------------------------------
(* Properties of a run *)

Depth(c) == IF c = Dir(0) THEN 0 ELSE Len(c) - 1

HasStore(d, k) == \E fmt \in Formats : StoreFile(k, fmt) \in DOMAIN d

LegacyOnly(d, k) ==
    StoreFile(k, "pickle") \in DOMAIN d /\ StoreFile(k, "json") \notin DOMAIN d

\* the nearest directory at or above the directory of depth k, below '/',
\* that holds a store file
Nearest(d, k) ==
    CHOOSE j \in 1..k : HasStore(d, j) /\ \A i \in (j + 1)..k : ~HasStore(d, i)

\* C1: a run that reaches its end after at least one process_single call
\* returned changed=true has saved the store, whatever the later calls
\* returned.
C1_SavedIfAnyChanged ==
    (pc = "done" /\ hist.ever_changed) => hist.saves = 1

\* C2: after the end-of-run save, load_info on the located directory gives
\* back the store that was saved.
C2_RoundTrip ==
    (pc = "done" /\ hist.saves = 1) =>
        LET l == load_info(disk, cwd, hist.dir)
        IN  l.exc = "" /\ l.data = info

\* C3: in a directory that holds only a legacy store, the first load_info
\* returns the legacy mapping and leaves a current-format store file in the
\* directory, and a later load_info reads that file, without the legacy
\* branch, and returns an equal mapping.
C3_MigrationIdempotent ==
    \A i, j \in DOMAIN obs :
        (i < j /\ obs[i].depth = obs[j].depth
               /\ LegacyOnly(obs[i].before, obs[i].depth)) =>
            /\ obs[i].exc = ""
            /\ obs[i].data = StoreIn(obs[i].depth, "pickle")
            /\ StoreFile(obs[i].depth, "json") \in DOMAIN obs[j].before
            /\ obs[j].branch = "json"
            /\ obs[j].exc = ""
            /\ obs[j].data = obs[i].data

\* C4: with the default bound or a bound larger than the depth, find_info
\* returns the nearest directory at or above the start directory that
\* holds a store file of either format.
C4_NearestStoreFound ==
    (/\ obs.op = "locate"
     /\ args.max_parent \in {None, <<MaxDepth + 2>>}
     /\ \E j \in 1..Depth(cwd) : HasStore(hist.disk0, j)) =>
        /\ obs.found.exc = ""
        /\ obs.found.ret = Dir(Nearest(hist.disk0, Depth(cwd)))

\* C5: when neither the start directory nor any directory above it holds a
\* store file, find_info fails with FileNotFoundError and the main flow
\* offers to generate a store.
C5_NotFoundOffersGenerate ==
    (/\ obs.op = "locate"
     /\ \A j \in 0..Depth(cwd) : ~HasStore(hist.disk0, j)) =>
        /\ obs.found.exc = "FileNotFoundError"
        /\ pc = "generate"

-----------------------------------------------------------------------------
(* Properties of one call of process_single *)

Called == pc = "unit" /\ obs.op = "process_single"

\* the file can be hashed
Readable(f) == f \in DOMAIN files /\ files[f].tag # "dir"

\* the digest of a file: the hash of its whole content, taken in one go
DigestOf(f) == Sha256(files[f])

\* a digest given by the caller: a string that is not empty
IsDigest(h) == h # None /\ h # Str("")

\* the call has a target that resolves to a key
ValidTarget ==
    \/ obs.hash_val = None /\ Readable(obs.file_name)
    \/ IsDigest(obs.hash_val)

TargetKey ==
    IF obs.hash_val # None THEN obs.hash_val ELSE DigestOf(obs.file_name)

\* the final segment of a path
FinalSegment(f) == << f[Len(f)] >>

\* the line reports the record r, under its name or as 'name -> fname'
Reports(line, r) ==
    /\ line[1] = "info"
    /\ line[3] = r.date
    /\ line[4] = r.note
    /\ \/ line[2] = r.fname
       \/ /\ obs.file_name # None
          /\ line[2] = Concat(Concat(FinalSegment(obs.file_name),
                                      Str(" -> ")), r.fname)

\* what the confirmation prompt was answered
Answer == obs.res.eff.dialog[1][2]

\* the note prompt was answered by a note that is not blank, or a note came
\* with the call
NoteObtained ==
    \/ obs.note_arg # Str("")
    \/ \E i \in DOMAIN obs.res.eff.dialog :
          /\ obs.res.eff.dialog[i][1] = "note"
          /\ obs.res.eff.dialog[i][2] \notin {Str(""), Interrupt}

\* the record the call made is in the store at key k
Inserted(k) ==
    /\ obs.res.exc = ""
    /\ obs.res.changed
    /\ DOMAIN obs.res.info = DOMAIN obs.before \cup {k}
    /\ obs.res.info[k].date = NowDate
    /\ obs.res.info[k].note \notin {Str(""), Interrupt}
    /\ \A h \in DOMAIN obs.before \ {k} : obs.res.info[h] = obs.before[h]

Untouched ==
    /\ obs.res.exc = ""
    /\ ~obs.res.changed
    /\ obs.res.info = obs.before

\* C6: with policy ask or skip and a target whose key is in the store,
\* process_single reports the record held at the key, asks nothing,
\* returns changed=false and leaves the store as it was.
C6_FoundLookup ==
    (/\ Called
     /\ obs.policy \in {"ask", "skip"}
     /\ ValidTarget
     /\ TargetKey \in DOMAIN obs.before) =>
        /\ Untouched
        /\ obs.res.eff.dialog = <<>>
        /\ Len(obs.res.eff.out) = 1
        /\ Reports(obs.res.eff.out[1], obs.before[TargetKey])

C6_Witness ==
    /\ Called
    /\ obs.policy = "ask"
    /\ obs.hash_val = None
    /\ Readable(obs.file_name)
    /\ TargetKey \in DOMAIN obs.before
    /\ Len(obs.res.eff.out) = 1

\* C7: with policy skip, process_single never changes the store, returns
\* changed=false and asks nothing; on a target whose key is not in the
\* store it reports that the target was not found.
C7_SkipNeverChanges ==
    (Called /\ obs.policy = "skip") =>
        /\ ~obs.res.changed
        /\ obs.res.info = obs.before
        /\ obs.res.eff.dialog = <<>>
        /\ (ValidTarget /\ TargetKey \notin DOMAIN obs.before) =>
              /\ obs.res.exc = ""
              /\ obs.res.eff.out =
                    << <<"not found",
                         IF obs.hash_val # None THEN obs.hash_val
                         ELSE FinalSegment(obs.file_name)>> >>

C7_Witness ==
    /\ Called
    /\ obs.policy = "skip"
    /\ hist.calls = 2
    /\ ValidTarget
    /\ TargetKey \notin DOMAIN obs.before
    /\ obs.before # <<>>

\* C8: with policy add, a file path and a note given with the call,
\* process_single looks nothing up, reports and asks nothing, and returns
\* changed=true with the store holding at the digest of the file a record
\* with the final segment of the path and the given note, whatever was
\* held there before.
C8_AddOverwrites ==
    (/\ Called
     /\ obs.policy = "add"
     /\ obs.hash_val = None
     /\ Readable(obs.file_name)
     /\ obs.note_arg # Str("")) =>
        /\ Inserted(DigestOf(obs.file_name))
        /\ obs.res.info[DigestOf(obs.file_name)].fname =
              FinalSegment(obs.file_name)
        /\ obs.res.info[DigestOf(obs.file_name)].note = obs.note_arg
        /\ obs.res.eff.lookup = None
        /\ obs.res.eff.out = <<>>
        /\ obs.res.eff.dialog = <<>>

C8_Witness ==
    /\ Called
    /\ obs.policy = "add"
    /\ obs.hash_val = None
    /\ Readable(obs.file_name)
    /\ obs.note_arg # Str("")
    /\ DigestOf(obs.file_name) \in DOMAIN obs.before
    /\ obs.before[DigestOf(obs.file_name)].note # obs.note_arg
    /\ obs.res.changed

\* C9 as it is stated: with policy ask and a key that is not in the store
\* the confirmation is asked once; a decline returns changed=false with
\* the store as it was; an acceptance (an empty answer too) followed by a
\* note that is not blank returns changed=true with a record at the key.
\* With a key that is in the store the call returns changed=false with
\* the store as it was.
C9_AskAsStated ==
    (Called /\ obs.policy = "ask" /\ ValidTarget) =>
        IF TargetKey \in DOMAIN obs.before THEN Untouched
        ELSE /\ obs.res.eff.asks = 1
             /\ Answer = Str("n") => Untouched
             /\ (Answer \in {Str(""), Str("y")} /\ NoteObtained) =>
                    Inserted(TargetKey)

\* the file name prompt of a target with no file name was interrupted
NamePromptInterrupted ==
    /\ obs.res.exc = "KeyboardInterrupt"
    /\ ~Truthy(IF obs.file_name = None THEN None
               ELSE FinalSegment(obs.file_name))
    /\ Last(obs.res.eff.dialog) = <<"name", Interrupt>>
    /\ obs.res.info = obs.before

\* C9, amended: as stated, except that an acceptance followed by a note
\* that is not blank either returns changed=true with a record at the key
\* or, for a target with no file name, ends in the KeyboardInterrupt of
\* the file name prompt with the store as it was.
C9_AskPolicy ==
    (Called /\ obs.policy = "ask" /\ ValidTarget) =>
        IF TargetKey \in DOMAIN obs.before THEN Untouched
        ELSE /\ obs.res.eff.asks = 1
             /\ Answer = Str("n") => Untouched
             /\ (Answer \in {Str(""), Str("y")} /\ NoteObtained) =>
                    Inserted(TargetKey) \/ NamePromptInterrupted

C9_Witness ==
    /\ Called
    /\ obs.policy = "ask"
    /\ ValidTarget
    /\ TargetKey \notin DOMAIN obs.before
    /\ Answer = Str("")
    /\ NoteObtained
    /\ Inserted(TargetKey)

\* C10: given a file that can be hashed and a digest, process_single never
\* hashes the file; the lookup uses the digest and a report is of the record
\* held at the digest; a record that is made is stored under the digest,
\* with the final segment of the path as its file name.
C10_DigestPriority ==
    (Called /\ Readable(obs.file_name) /\ IsDigest(obs.hash_val)) =>
        /\ obs.res.eff.hashes = 0
        /\ obs.policy # "add" => obs.res.eff.lookup = obs.hash_val
        /\ (obs.policy # "add" /\ obs.hash_val \in DOMAIN obs.before) =>
              /\ Len(obs.res.eff.out) = 1
              /\ Reports(obs.res.eff.out[1], obs.before[obs.hash_val])
        /\ (obs.res.exc = "" /\ obs.res.changed) =>
              /\ Inserted(obs.hash_val)
              /\ obs.res.eff.key = obs.hash_val
              /\ obs.res.info[obs.hash_val].fname =
                    FinalSegment(obs.file_name)

C10_Witness ==
    /\ Called
    /\ Readable(obs.file_name)
    /\ IsDigest(obs.hash_val)
    /\ DigestOf(obs.file_name) # obs.hash_val
    /\ DigestOf(obs.file_name) \notin DOMAIN obs.res.info
    /\ obs.policy = "ask"
    /\ obs.res.changed
    /\ obs.hash_val \in DOMAIN obs.res.info

\* the places of the dialog where the note prompt was answered
NoteAnswers ==
    { i \in DOMAIN obs.res.eff.dialog : obs.res.eff.dialog[i][1] = "note" }

C12_NoteInterruptLeavesStore ==
    (Called /\ \E i \in NoteAnswers : obs.res.eff.dialog[i][2] = Interrupt) =>
        /\ Untouched
        /\ obs.res.eff.key = None
        /\ obs.res.eff.name_prompts = 0

C12_Witness ==
    /\ Called
    /\ obs.before # <<>>
    /\ \E i \in NoteAnswers :
          /\ i > 1
          /\ obs.res.eff.dialog[i - 1] = <<"note", Str("")>>
          /\ obs.res.eff.dialog[i][2] = Interrupt

\* the last step of the run was a call of process_single from a loop
MainCalled == pc # "unit" /\ obs.op = "process_single"

\* a prompt of the last call was interrupted
PromptInterrupted ==
    \E i \in DOMAIN obs.res.eff.dialog : obs.res.eff.dialog[i][2] = Interrupt

\* the targets not processed yet
Remaining == Len(todo.fname) + Len(todo.hash)

C14_MissingTarget ==
    (Called /\ obs.file_name = None /\ obs.hash_val = None) =>
        /\ obs.res.exc = "AssertionError"
        /\ obs.res.eff = NoEffects
        /\ obs.res.info = obs.before
        /\ info = obs.before

C14_Witness ==
    /\ Called
    /\ obs.file_name = None
    /\ obs.hash_val = None
    /\ obs.policy = "add"
    /\ obs.before # <<>>
    /\ crash = "AssertionError"

\* C15: a file target that cannot be hashed, at any place among the
\* targets, makes process_single raise the error of the read, the run stops
\* there, and no save follows: the disk is as it was when the loops began.
C15_HashFailureAborts ==
    /\ (MainCalled /\ obs.file_name # None /\ ~Readable(obs.file_name)) =>
          /\ obs.res.exc \in {"FileNotFoundError", "IsADirectoryError"}
          /\ crash = obs.res.exc
          /\ pc = "crashed"
    /\ pc = "crashed" /\ MainCalled =>
          /\ hist.saves = 0
          /\ disk = hist.loaded

C15_Witness ==
    /\ MainCalled
    /\ crash = "FileNotFoundError"
    /\ pc = "crashed"
    /\ hist.calls = 2
    /\ hist.ever_changed
    /\ info # <<>>
    /\ hist.saves = 0

\* the number of blocks of BLOCK_SIZE bytes a content of n bytes fills, the
\* last one perhaps in part
BlocksOf(n) == (n + BLOCK_SIZE - 1) \div BLOCK_SIZE

Min(a, b) == IF a < b THEN a ELSE b

\* C16: for a file of any length, 0, BLOCK_SIZE and BLOCK_SIZE + 1 among
\* them, the read loop of calc_sum ends, the blocks it fed to the hash are
\* the bytes of the file from the first to the last, each once and in
\* order, and the digest returned is the hash of the whole content.
C16_StreamingDigest ==
    (pc = "digest" /\ obs.op = "calc_sum" /\ Readable(obs.file_name)) =>
        LET c == files[obs.file_name]
            fed == obs.res.fed
        IN  /\ obs.res.exc = ""
            /\ Len(fed) = BlocksOf(c.len)
            /\ \A i \in DOMAIN fed :
                  /\ fed[i].tag = c.tag
                  /\ fed[i].lo = (i - 1) * BLOCK_SIZE
                  /\ fed[i].hi = Min(i * BLOCK_SIZE, c.len)
                  /\ fed[i].hi > fed[i].lo
            /\ c.len > 0 => Last(fed).hi = c.len
            /\ obs.res.ret = Sha256(c)

C16_Witness ==
    /\ pc = "digest"
    /\ obs.op = "calc_sum"
    /\ Readable(obs.file_name)
    /\ files[obs.file_name].len = BLOCK_SIZE + 1
    /\ Len(obs.res.fed) = 2
    /\ obs.res.fed[2].hi - obs.res.fed[2].lo = 1
    /\ obs.res.ret = Sha256(files[obs.file_name])

\* C17: a run that found no store file and whose offer to generate one was
\* accepted has, when it reaches its end, saved the store, whatever the
\* calls of process_single returned.
C17_NewStorePersisted ==
    (pc = "done" /\ hist.origin = "new") => hist.saves = 1

\* C18: a run that loaded its store from a file of the current format and
\* in which no call returned changed=true leaves the disk as it found it;
\* and any run saves at most once, at its end, when no file and no digest
\* is left to process.
C18_NoSpuriousWrite ==
    /\ (hist.origin = "json" /\ ~hist.ever_changed) =>
          /\ disk = hist.disk0
          /\ hist.saves = 0
    /\ hist.saves <= 1
    /\ hist.saves = 1 =>
          /\ pc = "done"
          /\ todo.fname = <<>>
          /\ todo.hash = <<>>
          /\ obs.op = "save"

C18_Witness ==
    /\ pc = "done"
    /\ hist.origin = "json"
    /\ hist.calls = 2
    /\ ~hist.ever_changed
    /\ obs.op = "save"
    /\ ~obs.saved
    /\ disk = hist.disk0

\* the keys whose entry the call added or changed
ChangedKeys ==
    { k \in DOMAIN obs.res.info :
         k \notin DOMAIN obs.before \/ obs.res.info[k] # obs.before[k] }

\* C19 as stated: the store is changed if and only if the call returns
\* changed=true.
C19_AsStated ==
    (Called /\ obs.res.exc = "") =>
        (obs.res.changed <=> obs.res.info # obs.before)

\* C19: a call of process_single removes no key and changes no entry but
\* the one at the key it inserts at, which for a target that resolves to a
\* key is that key; the store is changed only if the call returns
\* changed=true, and the call returns changed=true exactly when it wrote
\* the record of this call at its key, be it equal to the record before.
C19_Frame ==
    Called =>
        /\ DOMAIN obs.before \subseteq DOMAIN obs.res.info
        /\ ChangedKeys \subseteq {obs.res.eff.key} \ {None}
        /\ ValidTarget /\ obs.res.eff.key # None => obs.res.eff.key = TargetKey
        /\ obs.res.info # obs.before => obs.res.exc = "" /\ obs.res.changed
        /\ (obs.res.exc = "" /\ obs.res.changed) <=> obs.res.eff.key # None
        /\ obs.res.eff.key # None =>
              /\ obs.res.eff.key \in DOMAIN obs.res.info
              /\ obs.res.info[obs.res.eff.key].date = NowDate
        /\ info = obs.res.info

C19_Witness ==
    /\ Called
    /\ obs.res.changed
    /\ obs.res.info = obs.before
    /\ Cardinality(DOMAIN obs.before) = 2
    /\ obs.res.eff.key = DigestA

\* C20: when the lookup of a call misses and the call goes on to insert,
\* the key it inserts at is the key it looked up, whatever file name and
\* digest string the call was given.
C20_KeyConsistency ==
    (Called /\ obs.res.eff.lookup # None /\ obs.res.eff.key # None) =>
        obs.res.eff.key = obs.res.eff.lookup

====
